---- MODULE Spec2Model ----
(***************************************************************************)
(* The multipart upload engine of the filesystem backend (package fs):     *)
(* NewMultipartUpload, CreateObjectPart, CompleteMultipartUpload,          *)
(* AbortMultipartUpload and ListObjectParts, run by concurrent request     *)
(* goroutines that serialize on fs.lock.  Files are modelled by content:   *)
(* part files and object files hold byte sequences; of a session journal   *)
(* the first JSON document is kept, the only one a Decode of the file      *)
(* returns.  Timestamps (Initiated, LastModified, Created) are left out.   *)
(* The runs are over one bucket directory and one object name, the calls   *)
(* of two goroutines, and process restarts at any point.                   *)
(***************************************************************************)
EXTENDS Integers, Sequences, FiniteSets, TLC

\* ------------------------------------------------------------------ bounds
\* uploadIDs handed out in one run (one per successful NewMultipartUpload)
MaxUploadID == 2
\* largest partID a client uses
MaxPartID == 2
\* longest byte stream a client sends for one part
MaxLen == 1
\* entries of a completion manifest
MaxManifest == 2

\* ------------------------------------------------------- program constants
\* default of the min-free-disk option, in percent
minFreeDisk == 10

\* ------------------------------------------------------------- input sets
Procs == {1, 2}
NoProc == 0
Bytes == {0, 1}
\* existing bucket directories under fs.path
Buckets == {"b1"}
\* a name IsValidBucket rejects
BadBucket == "B!"
BucketArgs == Buckets \cup {BadBucket}
\* the two buckets of the runs in which one object name is used in both
TwoBuckets == {"b1", "b2"}
\* and the parts and manifests of those runs: part 1, of one content
OnePartIDs == {0, 1}
OneStream == {<<0>>}
\* object names are sequences of character codes; the empty name is invalid
Objects == {<<1>>}
BadObject == <<>>
ObjectArgs == Objects
\* disk.Stat of the root: total blocks, and the free blocks a call may see
\* (5.3%, 10.5% and 52.6% of the total less 5%)
TotalBlocks == 20
FreeArgs == {1, 2, 10}

\* ------------------------------------------------------ strings, digests
\* a hasher after md5.New() is 1; Write(s) shifts the bytes of s in, so
\* that different contents have different sums
RECURSIVE Md5Write(_, _)
Md5Write(h, s) ==
    IF s = <<>> THEN h ELSE Md5Write(2 * h + s[1], SubSeq(s, 2, Len(s)))
Md5Sum(s) == Md5Write(1, s)

\* A digest-carrying string: its encoding, the bytes it encodes, and
\* whether it is wrapped in double quotes.
Str(enc, v, q) == [enc |-> enc, v |-> v, q |-> q]
EmptyStr == Str("empty", 0, FALSE)
Garbage == Str("garbage", 0, FALSE)
\* hex.EncodeToString / base64.StdEncoding.EncodeToString
HexEncode(d) == Str("hex", d, FALSE)
B64Encode(d) == Str("b64", d, FALSE)
Quote(s) == [s EXCEPT !.q = TRUE]
\* strings.Trim(s, "\"")
TrimQuotes(s) == [s EXCEPT !.q = FALSE]
\* base64.StdEncoding.DecodeString: ok and the decoded bytes
B64Decode(s) ==
    IF s.enc = "b64" /\ ~s.q THEN [ok |-> TRUE, v |-> s.v]
    ELSE IF s.enc = "empty" THEN [ok |-> TRUE, v |-> 0]
    ELSE [ok |-> FALSE, v |-> 0]
\* hex.DecodeString
HexDecode(s) ==
    IF s.enc = "hex" /\ ~s.q THEN [ok |-> TRUE, v |-> s.v]
    ELSE IF s.enc = "empty" THEN [ok |-> TRUE, v |-> 0]
    ELSE [ok |-> FALSE, v |-> 0]

RECURSIVE SeqsUpTo(_, _)
SeqsUpTo(S, n) ==
    IF n = 0 THEN {<<>>}
    ELSE LET R == SeqsUpTo(S, n - 1)
         IN  R \cup {Append(r, x) : r \in {r \in R : Len(r) = n - 1}, x \in S}

\* byte streams a client may send and the sizes it may declare
Streams == SeqsUpTo(Bytes, MaxLen)
Sizes == 1 .. MaxLen
PartContents == {SubSeq(d, 1, n) : d \in {d \in Streams : Len(d) = MaxLen}, n \in Sizes}
Digests == {Md5Sum(c) : c \in PartContents}
\* Content-MD5 values: absent, not base64, or the base64 digest of one content
ExpectedArgs == {EmptyStr, Garbage, B64Encode(Md5Sum(<<0>>))}
\* manifest ETags: a quoted hex digest, one bare hex digest, or not hex at all
ETagArgs ==
    {Quote(HexEncode(d)) : d \in Digests} \cup {HexEncode(Md5Sum(<<0>>)), Garbage}
PartIDs == 1 .. MaxPartID
\* uploadIDs a client may present, issued or not
UploadIDArgs == 1 .. MaxUploadID
SigArgs == {"none", "ok", "mismatch", "error"}
Manifests ==
    SeqsUpTo([PartNumber : PartIDs, ETag : ETagArgs], MaxManifest)
MarkerArgs == {-1, 0, 1}
MaxPartsArgs == {0, MaxPartID}
\* ListMultipartUploads resources: Prefix, KeyMarker, UploadIDMarker (0 is
\* the empty string), MaxUploads
PrefixArgs == {<<>>, <<2>>}
KeyMarkerArgs == {<<>>, <<1>>}
UploadIDMarkerArgs == {0, 1}
MaxUploadsArgs == {-1, 1}

\* the session maps and the requests the listing is checked on: up to
\* MaxSessions uploads started on three object names, two of them with a
\* common prefix
MaxSessions == 3
ListObjects == {<<1>>, <<1, 1>>, <<2>>}
ListResources ==
    [Prefix : {<<>>, <<1>>, <<2>>}, KeyMarker : {<<>>, <<1>>, <<1, 1>>},
     UploadIDMarker : {0, 1, 2}, MaxUploads : {0, 1, 2}]

\* ------------------------------------------------------------------ state
VARIABLES
    sessions,   \* fs.multiparts.ActiveSession: object -> session descriptor
    saved,      \* the session map file SaveMultipartsSession last wrote
    journals,   \* <<bucket, object>> -> first document of objectPath$multiparts
    parts,      \* <<bucket, object, n>> -> bytes of objectPath$n
    objects,    \* <<bucket, object>> -> bytes of objectPath
    lock,       \* holder of fs.lock, NoProc when free
    nextID,     \* the next fresh uploadID
    pc,         \* where each request goroutine stands
    loc,        \* the locals of the operation each goroutine runs
    hist        \* per uploadID: what its session went through since the
                \* process started (ghost)

vars == <<sessions, saved, journals, parts, objects, lock, nextID, pc, loc, hist>>
store == <<sessions, saved, journals, parts, objects>>

\* a session descriptor (MultipartSession) and a part record (PartMetadata)
Session(id, total, ps) == [UploadID |-> id, TotalParts |-> total, Parts |-> ps]
PartMetadata(n, etag, size) == [PartNumber |-> n, ETag |-> etag, Size |-> size]

\* removing a key of a map or a path of the file system; no-op when absent
Delete(m, k) == [x \in DOMAIN m \ {k} |-> m[x]]
\* setting a key
Put(m, k, v) == [x \in DOMAIN m \cup {k} |-> IF x = k THEN v ELSE m[x]]

\* what an operation found when it took the lock (ghost)
Snapshot ==
    [sessions |-> sessions, saved |-> saved, journals |-> journals,
     parts |-> parts, objects |-> objects]

\* the locals of a goroutine that runs no operation
Idle ==
    [op |-> "none", free |-> 0, bucket |-> "", object |-> <<>>, uploadID |-> 0,
     partID |-> 0, size |-> 0, maxParts |-> 0, marker |-> 0,
     manifest |-> <<>>, numbers |-> <<>>, i |-> 0,
     handle |-> "none", tmp |-> <<>>, h |-> 1, closes |-> 0,
     resources |-> <<>>, err |-> "", out |-> <<>>, pre |-> <<>>]

Init ==
    /\ sessions = <<>>
    /\ saved = <<>>
    /\ journals = <<>>
    /\ parts = <<>>
    /\ objects = <<>>
    /\ lock = NoProc
    /\ nextID = 1
    /\ pc = [p \in Procs |-> "idle"]
    /\ loc = [p \in Procs |-> Idle]
    /\ hist = <<>>

\* ---------------------------------------------------------------- helpers
IsValidBucket(b) == b # BadBucket
IsValidObjectName(o) == o # BadObject

RootPathFullBug(free) == FALSE
\* int64(availableDiskSpace) <= fs.minFreeDisk, with Total - 5% Total =
\* 19/20 Total; the conversion to int64 drops the fraction
RootPathFull(free) ==
    (free * 100 * 20) \div (TotalBlocks * 19) <= minFreeDisk

MutexFreeBug == TRUE
\* fs.lock.Lock() returns only when no goroutine holds the mutex
MutexFree == lock = NoProc

isValidUploadIDBug(object, uploadID) == object \in DOMAIN sessions
isValidUploadID(object, uploadID) ==
    /\ object \in DOMAIN sessions
    /\ uploadID = sessions[object].UploadID

\* SaveMultipartsSession(multiparts): what the session map file holds after
SaveMultipartsSession(multiparts) == multiparts

deleteActiveSessionBug(object) == sessions
\* delete(fs.multiparts.ActiveSession, object)
deleteActiveSession(object) == Delete(sessions, object)

\* the goroutine enters an operation: it holds the lock, its locals are l
Enter(p, l) ==
    /\ pc[p] = "idle"
    /\ MutexFree
    /\ lock' = p
    /\ loc' = [loc EXCEPT ![p] = l]

\* the operation's result is set; the deferred Unlock has not run
Return(l, err, out) == [l EXCEPT !.err = err, !.out = out]

\* An early return of an entry action: the goroutine took the lock, a check
\* failed, nothing was written.  Of the locals the error is kept, and for
\* InvalidUploadID the arguments of isValidUploadID.
Fail(p, op, err) ==
    /\ Enter(p, [Idle EXCEPT !.op = op, !.pre = Snapshot, !.err = err])
    /\ pc' = [pc EXCEPT ![p] = "ret"]
    /\ UNCHANGED <<store, nextID, hist>>

\* the same in an operation that passed, or failed, the disk guard with
\* free blocks: the blocks are kept too
Guarded(op, free, err) ==
    [Idle EXCEPT !.op = op, !.pre = Snapshot, !.free = free, !.err = err]

FailGuarded(p, op, free, err) ==
    /\ Enter(p, Guarded(op, free, err))
    /\ pc' = [pc EXCEPT ![p] = "ret"]
    /\ UNCHANGED <<store, nextID, hist>>

FailUploadID(p, op, o, id) ==
    /\ Enter(p, [Idle EXCEPT !.op = op, !.pre = Snapshot, !.object = o,
                             !.uploadID = id, !.err = "InvalidUploadID"])
    /\ pc' = [pc EXCEPT ![p] = "ret"]
    /\ UNCHANGED <<store, nextID, hist>>

CloseAndPurgeBug(fsys, path, tmp) == Put(fsys, path, tmp)
\* file.CloseAndPurge() of a handle of atomic.FileCreate(path): the temp
\* file holding tmp is removed, and path keeps what it had
CloseAndPurge(fsys, path, tmp) == fsys
\* file.Close(): the temp file is renamed onto path
Close(fsys, path, tmp) == Put(fsys, path, tmp)

\* the locals of an error return after atomic.FileCreate and CloseAndPurge
\* within the entry action
Purged(op, err) ==
    [Idle EXCEPT !.op = op, !.pre = Snapshot, !.err = err,
                 !.handle = "purged", !.closes = 1]

\* ------------------------------------------------------ NewMultipartUpload
\* os.OpenFile(O_WRONLY|O_CREATE) and one Encode: the document is written at
\* offset 0, so it is the file's first document, on a new journal and on
\* one left behind (which is not truncated)
JournalCreate(doc) == doc

\* ghost: a session another NewMultipartUpload of its object came after, or
\* one of an earlier run of the process
Superseded(s) == [s EXCEPT !.aborted = FALSE, !.ascending = FALSE, !.sizes = <<>>]

\* the session starts: journal, session map, session map file
StartSession(p, free, b, o) ==
    LET uploadID == nextID
        mpartSession == Session(uploadID, 0, <<>>)
    IN  /\ Enter(p, [Idle EXCEPT !.op = "NewMultipartUpload", !.pre = Snapshot,
                                 !.free = free, !.bucket = b, !.object = o,
                                 !.uploadID = uploadID, !.out = uploadID])
        /\ pc' = [pc EXCEPT ![p] = "ret"]
        /\ journals' = Put(journals, <<b, o>>, JournalCreate(mpartSession))
        /\ sessions' = Put(sessions, o, mpartSession)
        /\ saved' = SaveMultipartsSession(sessions')
        /\ nextID' = nextID + 1
        /\ hist' = Put([i \in DOMAIN hist |->
                          IF hist[i].object = o THEN Superseded(hist[i]) ELSE hist[i]],
                       uploadID,
                       [bucket |-> b, object |-> o, aborted |-> FALSE,
                        ascending |-> TRUE, sizes |-> <<>>])
        /\ UNCHANGED <<parts, objects>>

NewUpload(p, frees, bucketArgs, objectArgs) ==
    LET op == "NewMultipartUpload"
    IN  \E free \in frees :
        IF RootPathFull(free) THEN FailGuarded(p, op, free, "RootPathFull") ELSE
        \E b \in bucketArgs :
        IF ~IsValidBucket(b)
        THEN FailGuarded(p, op, free, "BucketNameInvalid") ELSE
        \E o \in objectArgs :
        IF ~IsValidObjectName(o)
        THEN FailGuarded(p, op, free, "ObjectNameInvalid") ELSE
        StartSession(p, free, b, o)

NewMultipartUpload(p) ==
    /\ nextID <= MaxUploadID
    /\ NewUpload(p, FreeArgs, BucketArgs, ObjectArgs)

\* the same call on the object names of the listing
NewSession(p) ==
    /\ nextID <= MaxSessions
    /\ NewUpload(p, {TotalBlocks}, BucketArgs, ListObjects \cup {BadObject})

\* the same call on the two buckets
NewInBucket(p) ==
    /\ nextID <= MaxUploadID
    /\ NewUpload(p, {TotalBlocks}, TwoBuckets, Objects)

\* -------------------------------------------------------- CreateObjectPart
\* Content-MD5 as the hex string it is compared in
ExpectedHex(expected) ==
    IF expected # EmptyStr THEN HexEncode(B64Decode(expected).v) ELSE EmptyStr

isMD5SumEqual(expectedMD5Sum, md5sum) == expectedMD5Sum = md5sum

\* "" when the streamed part passes the digest and signature checks
VerifyPartErr(expected, h, sig) ==
    LET md5sum == HexEncode(h)
    IN  IF expected # EmptyStr /\ ~isMD5SumEqual(ExpectedHex(expected), md5sum)
        THEN "BadDigest"
        ELSE IF sig = "error" THEN "SignatureError"
        ELSE IF sig = "mismatch" THEN "SignatureDoesNotMatch"
        ELSE ""

\* atomic.FileCreate(partPath), io.CopyN(mw, data, size) into the temp file
\* and the hashers, the digest and signature checks, and CloseAndPurge, or
\* Sync and Close, which renames the temp file onto partPath
WritePart(p, free, b, o, id, partID, expected, streams) ==
    LET op == "CreateObjectPart" IN
    \E data \in streams, size \in Sizes, sig \in SigArgs :
    LET partPath == <<b, o, partID>>
        obj == SubSeq(data, 1, IF Len(data) < size THEN Len(data) ELSE size)
        h == Md5Write(1, obj)
        err == IF Len(data) < size THEN "EOF" ELSE VerifyPartErr(expected, h, sig)
    IN  /\ IF err # ""
           THEN /\ Enter(p, [Purged(op, err) EXCEPT !.free = free])
                /\ pc' = [pc EXCEPT ![p] = "ret"]
                /\ parts' = CloseAndPurge(parts, partPath, obj)
           ELSE /\ Enter(p, [Idle EXCEPT !.op = op, !.pre = Snapshot,
                                         !.free = free, !.bucket = b,
                                         !.object = o, !.uploadID = id,
                                         !.partID = partID, !.size = size,
                                         !.tmp = obj, !.h = h,
                                         !.handle = "published", !.closes = 1])
                /\ pc' = [pc EXCEPT ![p] = "cop_journal"]
                /\ parts' = Close(parts, partPath, obj)
        /\ UNCHANGED <<sessions, saved, journals, objects, nextID, hist>>

\* entry: the checks and the part file
CreatePart(p, frees, bucketArgs, partIDArgs, streams) ==
    LET op == "CreateObjectPart"
    IN  \E free \in frees :
        IF RootPathFull(free) THEN FailGuarded(p, op, free, "RootPathFull") ELSE
        \E partID \in partIDArgs :
        IF partID <= 0 THEN FailGuarded(p, op, free, "InvalidPartID") ELSE
        \E b \in bucketArgs :
        IF ~IsValidBucket(b) THEN FailGuarded(p, op, free, "BucketNameInvalid") ELSE
        \E o \in ObjectArgs :
        IF ~IsValidObjectName(o)
        THEN FailGuarded(p, op, free, "ObjectNameInvalid") ELSE
        \E id \in UploadIDArgs :
        IF ~isValidUploadID(o, id)
        THEN /\ Enter(p, [Guarded(op, free, "InvalidUploadID")
                             EXCEPT !.object = o, !.uploadID = id])
             /\ pc' = [pc EXCEPT ![p] = "ret"]
             /\ UNCHANGED <<store, nextID, hist>>
        ELSE
        \E expected \in ExpectedArgs :
        IF expected # EmptyStr /\ ~B64Decode(expected).ok
        THEN FailGuarded(p, op, free, "InvalidDigest") ELSE
        WritePart(p, free, b, o, id, partID, expected, streams)

CreateObjectPart(p) == CreatePart(p, FreeArgs, BucketArgs, 0 .. MaxPartID, Streams)

\* the same call on the two buckets
CreateInBucket(p) == CreatePart(p, {TotalBlocks}, TwoBuckets, OnePartIDs, OneStream)

\* json.NewDecoder(f).Decode: the first document of the file
Decode(j) == j

\* Encode on the journal opened O_RDWR|O_APPEND: the document goes behind
\* the ones in the file, whose first document stays what it was
JournalAppend(j, doc) == j

\* sort.Sort(partNumber(ps)), as an insertion sort on PartNumber
RECURSIVE SortParts(_)
SortParts(ps) ==
    IF ps = <<>> THEN <<>>
    ELSE LET rest == SortParts(SubSeq(ps, 1, Len(ps) - 1))
             x == ps[Len(ps)]
             k == Cardinality({i \in 1 .. Len(rest) : rest[i].PartNumber <= x.PartNumber})
         IN  SubSeq(rest, 1, k) \o <<x>> \o SubSeq(rest, k + 1, Len(rest))

\* the descriptor CreateObjectPart builds from the decoded one
AppendPart(d, partMetadata) ==
    Session(d.UploadID, d.TotalParts + 1, SortParts(Append(d.Parts, partMetadata)))

\* ghost: the session's successful uploads so far are parts 1..N in this
\* order, in the session's bucket, of the sizes recorded
Recorded(s, b, partID, size) ==
    IF s.ascending /\ b = s.bucket /\ partID = Len(s.sizes) + 1
    THEN [s EXCEPT !.sizes = Append(@, size)]
    ELSE [s EXCEPT !.ascending = FALSE, !.sizes = <<>>]

\* os.Stat(partPath), then the journal is opened O_RDWR|O_APPEND, decoded,
\* and the new descriptor is put in the session map and encoded at the
\* journal's end
UpdateJournal(p) ==
    /\ pc[p] = "cop_journal"
    /\ LET l == loc[p]
           key == <<l.bucket, l.object>>
           md5sum == HexEncode(l.h)
           partMetadata ==
               PartMetadata(l.partID, md5sum, Len(parts[<<l.bucket, l.object, l.partID>>]))
       IN  IF key \notin DOMAIN journals
           THEN /\ loc' = [loc EXCEPT ![p] = Return(@, "ENOENT", <<>>)]
                /\ UNCHANGED <<sessions, journals, hist>>
           ELSE LET d == AppendPart(Decode(journals[key]), partMetadata)
                IN  /\ sessions' = Put(sessions, l.object, d)
                    /\ journals' = [journals EXCEPT ![key] = JournalAppend(@, d)]
                    /\ loc' = [loc EXCEPT ![p] = Return(@, "", partMetadata.ETag)]
                    /\ hist' = [hist EXCEPT ![l.uploadID] =
                                   Recorded(@, l.bucket, l.partID, l.size)]
    /\ pc' = [pc EXCEPT ![p] = "ret"]
    /\ UNCHANGED <<saved, parts, objects, lock, nextID>>

\* -------------------------------------------------- CompleteMultipartUpload
\* completedParts.Less(i, j) on the manifest a
completedPartsLess(a, i, j) == a[i].PartNumber <= a[j].PartNumber
IsSortedBug(a) == TRUE
\* sort.IsSorted
IsSorted(a) == \A i \in 2 .. Len(a) : ~completedPartsLess(a, i, i - 1)

ConcatPartErrBug(b, o, part) == ""
\* one part of concatParts: "" when the part file opens and its digest is
\* the manifest's
ConcatPartErr(b, o, part) ==
    LET key == <<b, o, part.PartNumber>>
        recvMD5Bytes == HexDecode(TrimQuotes(part.ETag))
    IN  IF key \notin DOMAIN parts THEN "ENOENT"
        ELSE IF ~recvMD5Bytes.ok THEN "InvalidDigest"
        ELSE IF recvMD5Bytes.v # Md5Sum(parts[key]) THEN "BadDigest"
        ELSE ""

\* concatParts from part i on, the bytes written to mw so far in acc: the
\* error, or the bytes of the temp file
RECURSIVE concatParts(_, _, _, _, _)
concatParts(b, o, m, i, acc) ==
    IF i > Len(m) THEN [err |-> "", tmp |-> acc]
    ELSE LET err == ConcatPartErr(b, o, m[i])
             key == <<b, o, m[i].PartNumber>>
             obj == IF key \in DOMAIN parts THEN parts[key] ELSE <<>>
         IN  IF err # "" THEN [err |-> err, tmp |-> acc]
             ELSE concatParts(b, o, m, i + 1, acc \o obj)

\* the ObjectMetadata an operation returns; ObjectMetadata{} with an error
ObjectMetadata(b, o, size, md5) ==
    [Bucket |-> b, Object |-> o, Size |-> size, Md5 |-> md5]
NoObjectMetadata == ObjectMetadata("", <<>>, 0, EmptyStr)

\* the part numbers of a parsed manifest, in its order
PartNumbers(m) == [i \in 1 .. Len(m) |-> m[i].PartNumber]

\* atomic.FileCreate(objectPath), the manifest read, its signature checked,
\* the XML parsed, the order of its parts checked, and the parts
\* concatenated into the temp file and the object's hasher.  When the
\* signature check itself fails, the error returned is probe.NewError(err)
\* of the err of ioutil.ReadAll, which is nil: the call returns no error.
\* Of a manifest refused for its order the part numbers are kept.
AssembleParts(p, b, o, id, manifests) ==
    LET op == "CompleteMultipartUpload"
        Failed(tmp, err) ==
            /\ Enter(p, Purged(op, err))
            /\ pc' = [pc EXCEPT ![p] = "ret"]
            /\ objects' = CloseAndPurge(objects, <<b, o>>, tmp)
            /\ UNCHANGED <<sessions, saved, journals, parts, nextID, hist>>
    IN  \E sig \in SigArgs :
        IF sig = "error"
        THEN /\ Enter(p, [Purged(op, "") EXCEPT !.bucket = b, !.object = o,
                                                !.uploadID = id,
                                                !.out = NoObjectMetadata])
             /\ pc' = [pc EXCEPT ![p] = "ret"]
             /\ objects' = CloseAndPurge(objects, <<b, o>>, <<>>)
             /\ UNCHANGED <<sessions, saved, journals, parts, nextID, hist>>
        ELSE
        IF sig = "mismatch" THEN Failed(<<>>, "SignatureDoesNotMatch") ELSE
        \E wellFormed \in BOOLEAN :
        IF ~wellFormed THEN Failed(<<>>, "MalformedXML") ELSE
        \E m \in manifests :
        IF ~IsSorted(m)
        THEN /\ Enter(p, [Purged(op, "InvalidPartOrder")
                             EXCEPT !.numbers = PartNumbers(m)])
             /\ pc' = [pc EXCEPT ![p] = "ret"]
             /\ objects' = CloseAndPurge(objects, <<b, o>>, <<>>)
             /\ UNCHANGED <<sessions, saved, journals, parts, nextID, hist>>
        ELSE
        LET r == concatParts(b, o, m, 1, <<>>) IN
        IF r.err # "" THEN Failed(r.tmp, r.err) ELSE
        /\ Enter(p, [Idle EXCEPT !.op = op, !.pre = Snapshot, !.bucket = b,
                                 !.object = o, !.uploadID = id, !.manifest = m,
                                 !.numbers = PartNumbers(m), !.tmp = r.tmp, !.h = Md5Write(1, r.tmp),
                                 !.handle = "open"])
        /\ pc' = [pc EXCEPT ![p] = "cmu_delete"]
        /\ UNCHANGED <<store, nextID, hist>>

\* entry: the checks and the assembly of the temp file
Complete(p, bucketArgs, manifests) ==
    LET op == "CompleteMultipartUpload"
    IN  \E b \in bucketArgs :
        IF ~IsValidBucket(b) THEN Fail(p, op, "BucketNameInvalid") ELSE
        \E o \in ObjectArgs :
        IF ~IsValidObjectName(o) THEN Fail(p, op, "ObjectNameInvalid") ELSE
        \E id \in UploadIDArgs :
        IF ~isValidUploadID(o, id) THEN FailUploadID(p, op, o, id) ELSE
        AssembleParts(p, b, o, id, manifests)

CompleteMultipartUpload(p) == Complete(p, BucketArgs, Manifests)

\* the same call on the two buckets
CompleteInBucket(p) ==
    Complete(p, TwoBuckets,
             SeqsUpTo([PartNumber : OnePartIDs \ {0}, ETag : ETagArgs], 1))

\* the error return of a later step that leaves the handle as it is
PurgeBug(p, l, err) ==
    /\ loc' = [loc EXCEPT ![p] = Return(l, err, <<>>)]
    /\ pc' = [pc EXCEPT ![p] = "ret"]
    /\ UNCHANGED objects

\* file.CloseAndPurge() and the error return of a later step
Purge(p, l, err) ==
    /\ loc' = [loc EXCEPT ![p] =
           Return([l EXCEPT !.handle = "purged", !.closes = @ + 1], err, <<>>)]
    /\ pc' = [pc EXCEPT ![p] = "ret"]
    /\ objects' = CloseAndPurge(objects, <<l.bucket, l.object>>, l.tmp)

\* delete(fs.multiparts.ActiveSession, object)
DeleteSession(p) ==
    /\ pc[p] = "cmu_delete"
    /\ sessions' = deleteActiveSession(loc[p].object)
    /\ loc' = [loc EXCEPT ![p].i = 1]
    /\ pc' = [pc EXCEPT ![p] =
           IF loc[p].manifest = <<>> THEN "cmu_rmjournal" ELSE "cmu_rmpart"]
    /\ UNCHANGED <<saved, journals, parts, objects, lock, nextID, hist>>

\* os.Remove of one part file of the manifest
RemovePart(p) ==
    /\ pc[p] = "cmu_rmpart"
    /\ LET l == loc[p]
           key == <<l.bucket, l.object, l.manifest[l.i].PartNumber>>
       IN  IF key \notin DOMAIN parts
           THEN Purge(p, l, "ENOENT") /\ UNCHANGED parts
           ELSE /\ parts' = Delete(parts, key)
                /\ loc' = [loc EXCEPT ![p].i = @ + 1]
                /\ pc' = [pc EXCEPT ![p] =
                       IF l.i = Len(l.manifest) THEN "cmu_rmjournal" ELSE "cmu_rmpart"]
                /\ UNCHANGED objects
    /\ UNCHANGED <<sessions, saved, journals, lock, nextID, hist>>

\* os.Remove(objectPath + "$multiparts")
RemoveJournal(p) ==
    /\ pc[p] = "cmu_rmjournal"
    /\ LET l == loc[p]
           key == <<l.bucket, l.object>>
       IN  IF key \notin DOMAIN journals
           THEN Purge(p, l, "ENOENT") /\ UNCHANGED journals
           ELSE /\ journals' = Delete(journals, key)
                /\ pc' = [pc EXCEPT ![p] = "cmu_save"]
                /\ UNCHANGED <<loc, objects>>
    /\ UNCHANGED <<sessions, saved, parts, lock, nextID, hist>>

\* SaveMultipartsSession(fs.multiparts)
SaveSession(p) ==
    /\ pc[p] = "cmu_save"
    /\ saved' = SaveMultipartsSession(sessions)
    /\ pc' = [pc EXCEPT ![p] = "cmu_publish"]
    /\ UNCHANGED <<sessions, journals, parts, objects, lock, nextID, loc, hist>>

\* file.File.Sync(), file.Close(): the temp file is renamed onto objectPath;
\* then os.Stat(objectPath) and the metadata returned
Publish(p) ==
    /\ pc[p] = "cmu_publish"
    /\ LET l == loc[p]
           key == <<l.bucket, l.object>>
       IN  /\ objects' = Close(objects, key, l.tmp)
           /\ loc' = [loc EXCEPT ![p] =
                  Return([l EXCEPT !.handle = "published", !.closes = @ + 1], "",
                         ObjectMetadata(l.bucket, l.object, Len(objects'[key]),
                                        HexEncode(l.h)))]
    /\ pc' = [pc EXCEPT ![p] = "ret"]
    /\ UNCHANGED <<sessions, saved, journals, parts, lock, nextID, hist>>

\* ---------------------------------------------------- AbortMultipartUpload
\* the part files of the session's records, the session map entry and the
\* journal are removed; os.RemoveAll does not fail on a missing path
RemoveSession(p, b, o, id) ==
    LET recorded == {<<b, o, sessions[o].Parts[i].PartNumber>> :
                        i \in 1 .. Len(sessions[o].Parts)}
    IN  /\ Enter(p, [Idle EXCEPT !.op = "AbortMultipartUpload", !.pre = Snapshot,
                                 !.bucket = b, !.object = o, !.uploadID = id])
        /\ pc' = [pc EXCEPT ![p] = "ret"]
        /\ parts' = [k \in DOMAIN parts \ recorded |-> parts[k]]
        /\ sessions' = deleteActiveSession(o)
        /\ journals' = Delete(journals, <<b, o>>)
        /\ hist' = [hist EXCEPT ![id].aborted = TRUE]
        /\ UNCHANGED <<saved, objects, nextID>>

Abort(p, bucketArgs) ==
    LET op == "AbortMultipartUpload"
    IN  \E b \in bucketArgs :
        IF ~IsValidBucket(b) THEN Fail(p, op, "BucketNameInvalid") ELSE
        \E o \in ObjectArgs :
        IF ~IsValidObjectName(o) THEN Fail(p, op, "ObjectNameInvalid") ELSE
        \E id \in UploadIDArgs :
        IF ~isValidUploadID(o, id) THEN FailUploadID(p, op, o, id) ELSE
        RemoveSession(p, b, o, id)

AbortMultipartUpload(p) == Abort(p, BucketArgs)

\* the same call on the two buckets
AbortInBucket(p) == Abort(p, TwoBuckets)

\* --------------------------------------------------------- ListObjectParts
\* the loop over the decoded descriptor d from index i, parts collected in
\* acc; an index outside d.Parts panics
RECURSIVE ListLoop(_, _, _, _)
ListLoop(d, i, acc, maxParts) ==
    IF i > d.TotalParts
    THEN [Part |-> SortParts(acc), IsTruncated |-> FALSE,
          NextPartNumberMarker |-> 0, panic |-> FALSE]
    ELSE IF Len(acc) > maxParts
    THEN [Part |-> SortParts(acc), IsTruncated |-> TRUE,
          NextPartNumberMarker |-> i, panic |-> FALSE]
    ELSE IF i - 1 < 0 \/ i - 1 >= Len(d.Parts)
    THEN [Part |-> acc, IsTruncated |-> FALSE,
          NextPartNumberMarker |-> 0, panic |-> TRUE]
    ELSE ListLoop(d, i + 1, Append(acc, d.Parts[i]), maxParts)

ListObjectParts(p) ==
    LET op == "ListObjectParts"
    IN  \E b \in BucketArgs :
        IF ~IsValidBucket(b) THEN Fail(p, op, "BucketNameInvalid") ELSE
        \E o \in ObjectArgs :
        IF ~IsValidObjectName(o) THEN Fail(p, op, "ObjectNameInvalid") ELSE
        \E id \in UploadIDArgs :
        IF ~isValidUploadID(o, id) THEN FailUploadID(p, op, o, id) ELSE
        IF <<b, o>> \notin DOMAIN journals THEN Fail(p, op, "ENOENT") ELSE
        \E marker \in MarkerArgs, maxParts \in MaxPartsArgs :
        LET startPartNumber == IF marker = 0 THEN 1 ELSE marker
            r == ListLoop(Decode(journals[<<b, o>>]), startPartNumber, <<>>, maxParts)
        IN  /\ Enter(p, [Idle EXCEPT !.op = op, !.pre = Snapshot, !.bucket = b,
                                     !.object = o, !.uploadID = id,
                                     !.marker = marker, !.maxParts = maxParts,
                                     !.err = IF r.panic THEN "panic" ELSE "",
                                     !.out = r])
            /\ pc' = [pc EXCEPT ![p] = "ret"]
            /\ UNCHANGED <<store, nextID, hist>>

\* ---------------------------------------------------- ListMultipartUploads
\* a test for equality in the place of the test for a prefix
HasPrefixBug(s, prefix) == s = prefix

\* strings.HasPrefix(s, prefix)
HasPrefix(s, prefix) ==
    Len(prefix) <= Len(s) /\ SubSeq(s, 1, Len(prefix)) = prefix

\* s > t on strings
RECURSIVE StringGreater(_, _)
StringGreater(s, t) ==
    IF s = <<>> THEN FALSE
    ELSE IF t = <<>> THEN TRUE
    ELSE IF s[1] # t[1] THEN s[1] > t[1]
    ELSE StringGreater(Tail(s), Tail(t))

\* sort.Sort(byUploadMetadataKey(uploads)), as an insertion sort on Object
RECURSIVE SortUploads(_)
SortUploads(us) ==
    IF us = <<>> THEN <<>>
    ELSE LET rest == SortUploads(SubSeq(us, 1, Len(us) - 1))
             x == us[Len(us)]
             k == Cardinality({i \in 1 .. Len(rest) :
                                  ~StringGreater(rest[i].Object, x.Object)})
         IN  SubSeq(rest, 1, k) \o <<x>> \o SubSeq(rest, k + 1, Len(rest))

\* the orders a range over a map with the keys S may take
RangeOrders(S) ==
    {f \in [1 .. Cardinality(S) -> S] : \A i, j \in DOMAIN f : f[i] = f[j] => i = j}

\* a loop body that appends every session
ListedBug(object, session, resources) == TRUE

\* whether the loop body appends the session of object
Listed(object, session, resources) ==
    IF resources.KeyMarker # <<>> /\ resources.UploadIDMarker = 0
    THEN StringGreater(object, resources.KeyMarker)
    ELSE IF resources.KeyMarker # <<>> /\ resources.UploadIDMarker # 0
    THEN /\ session.UploadID > resources.UploadIDMarker
         /\ ~StringGreater(resources.KeyMarker, object)
    ELSE TRUE

\* the loop over fs.multiparts.ActiveSession in the order given, from its
\* i-th key on, with the uploads collected so far
RECURSIVE RangeSessions(_, _, _, _)
RangeSessions(order, i, uploads, resources) ==
    IF i > Len(order)
    THEN [Upload |-> SortUploads(uploads), IsTruncated |-> FALSE,
          NextKeyMarker |-> <<>>, NextUploadIDMarker |-> 0]
    ELSE LET object == order[i]
             session == sessions[object]
             upload == [Object |-> object, UploadID |-> session.UploadID]
         IN  IF ~HasPrefix(object, resources.Prefix)
             THEN RangeSessions(order, i + 1, uploads, resources)
             ELSE IF Len(uploads) > resources.MaxUploads
             THEN [Upload |-> SortUploads(uploads), IsTruncated |-> TRUE,
                   NextKeyMarker |-> object,
                   NextUploadIDMarker |-> session.UploadID]
             ELSE RangeSessions(order, i + 1,
                                IF Listed(object, session, resources)
                                THEN Append(uploads, upload) ELSE uploads,
                                resources)

\* the call with the given request, the map ranged over in any order; of the
\* locals the result is kept, and the request where kept says so
ListUploads(p, bucketArgs, requests, kept) ==
    LET op == "ListMultipartUploads"
    IN  \E b \in bucketArgs :
        IF ~IsValidBucket(b) THEN Fail(p, op, "BucketNameInvalid") ELSE
        \E resources \in requests, order \in RangeOrders(DOMAIN sessions) :
        /\ Enter(p, [Idle EXCEPT !.op = op, !.pre = Snapshot,
                                 !.bucket = IF kept THEN b ELSE "",
                                 !.resources = IF kept THEN resources ELSE <<>>,
                                 !.out = RangeSessions(order, 1, <<>>, resources)])
        /\ pc' = [pc EXCEPT ![p] = "ret"]
        /\ UNCHANGED <<store, nextID, hist>>

ListMultipartUploads(p) ==
    ListUploads(p, BucketArgs,
                [Prefix : PrefixArgs, KeyMarker : KeyMarkerArgs,
                    UploadIDMarker : UploadIDMarkerArgs,
                    MaxUploads : MaxUploadsArgs], FALSE)

\* the same call on the requests of the listing
ListSessions(p) == ListUploads(p, BucketArgs, ListResources, TRUE)

\* the same call on the two buckets, for all uploads
ListInBucket(p) ==
    ListUploads(p, TwoBuckets,
                {[Prefix |-> <<>>, KeyMarker |-> <<>>, UploadIDMarker |-> 0,
                  MaxUploads |-> MaxUploadID]}, TRUE)

\* ------------------------------------------------------------ return, crash
\* a return that leaves the mutex locked
UnlockBug(p) ==
    /\ pc[p] = "ret"
    /\ pc' = [pc EXCEPT ![p] = "idle"]
    /\ loc' = [loc EXCEPT ![p] = Idle]
    /\ UNCHANGED <<store, lock, nextID, hist>>

\* the deferred fs.lock.Unlock() as the operation returns
Unlock(p) ==
    /\ pc[p] = "ret"
    /\ lock' = NoProc
    /\ pc' = [pc EXCEPT ![p] = "idle"]
    /\ loc' = [loc EXCEPT ![p] = Idle]
    /\ UNCHANGED <<store, nextID, hist>>

\* The process dies and is started again: the goroutines and the mutex are
\* gone, the files stay, and the session map is loaded from its file.
Restart ==
    /\ sessions' = saved
    /\ lock' = NoProc
    /\ pc' = [p \in Procs |-> "idle"]
    /\ loc' = [p \in Procs |-> Idle]
    /\ hist' = [i \in DOMAIN hist |-> Superseded(hist[i])]
    /\ UNCHANGED <<saved, journals, parts, objects, nextID>>

Next ==
    \/ \E p \in Procs :
        \/ NewMultipartUpload(p)
        \/ CreateObjectPart(p)
        \/ UpdateJournal(p)
        \/ CompleteMultipartUpload(p)
        \/ DeleteSession(p)
        \/ RemovePart(p)
        \/ RemoveJournal(p)
        \/ SaveSession(p)
        \/ Publish(p)
        \/ AbortMultipartUpload(p)
        \/ ListObjectParts(p)
        \/ ListMultipartUploads(p)
        \/ Unlock(p)
    \/ Restart

Spec == Init /\ [][Next]_vars

\* uploads started and aborted on several object names, and listed
NextList ==
    \E p \in Procs :
        \/ NewSession(p)
        \/ AbortMultipartUpload(p)
        \/ ListSessions(p)
        \/ Unlock(p)

SpecList == Init /\ [][NextList]_vars

\* the operations on one object name in two buckets
NextBuckets ==
    \E p \in Procs :
        \/ NewInBucket(p)
        \/ CreateInBucket(p)
        \/ UpdateJournal(p)
        \/ CompleteInBucket(p)
        \/ DeleteSession(p)
        \/ RemovePart(p)
        \/ RemoveJournal(p)
        \/ SaveSession(p)
        \/ Publish(p)
        \/ AbortInBucket(p)
        \/ ListInBucket(p)
        \/ Unlock(p)

SpecBuckets == Init /\ [][NextBuckets]_vars

\* a call of goroutine p: fs.lock.Lock() returns and the operation begins
Call(p) ==
    \/ NewInBucket(p)
    \/ CreateInBucket(p)
    \/ CompleteInBucket(p)
    \/ AbortInBucket(p)
    \/ ListObjectParts(p)
    \/ ListInBucket(p)

\* a step of goroutine p inside an operation, its return included
Step(p) ==
    \/ UpdateJournal(p)
    \/ DeleteSession(p)
    \/ RemovePart(p)
    \/ RemoveJournal(p)
    \/ SaveSession(p)
    \/ Publish(p)
    \/ Unlock(p)

NextLive == \E p \in Procs : Call(p) \/ Step(p)

\* The engine with every goroutine calling one operation after the other: a
\* goroutine inside an operation goes on running, its reads and writes
\* ending, and a goroutine blocked in fs.lock.Lock() is not passed over for
\* ever when the mutex is unlocked again and again.
SpecLive ==
    /\ Init /\ [][NextLive]_vars
    /\ \A p \in Procs : WF_vars(Step(p)) /\ SF_vars(Call(p))

\* ------------------------------------------------------------- properties
\* goroutine p has the result of an operation op in hand, the lock still held
Returned(p, op) == pc[p] = "ret" /\ loc[p].op = op
Succeeded(p, op) == Returned(p, op) /\ loc[p].err = ""

\* the bytes of the part files a manifest m names, in the order of m, in
\* the part files ps
RECURSIVE PartsOf(_, _, _, _)
PartsOf(ps, b, o, m) ==
    IF m = <<>> THEN <<>>
    ELSE LET key == <<b, o, m[1].PartNumber>>
         IN  (IF key \in DOMAIN ps THEN ps[key] ELSE <<>>) \o PartsOf(ps, b, o, Tail(m))

\* the sum of the sizes of those part files
RECURSIVE SizesOf(_, _, _, _)
SizesOf(ps, b, o, m) ==
    IF m = <<>> THEN 0
    ELSE LET key == <<b, o, m[1].PartNumber>>
         IN  (IF key \in DOMAIN ps THEN Len(ps[key]) ELSE 0) + SizesOf(ps, b, o, Tail(m))

\* every part m names is a file of ps whose digest is the etag m gives it
Verified(ps, b, o, m) ==
    \A i \in 1 .. Len(m) :
        LET key == <<b, o, m[i].PartNumber>>
            recv == HexDecode(TrimQuotes(m[i].ETag))
        IN  key \in DOMAIN ps /\ recv.ok /\ recv.v = Md5Sum(ps[key])

\* C1: the files at the object paths change only in the step of a
\* CompleteMultipartUpload that renames its temp file onto the path, and at
\* that step every part of the manifest was a part file with the digest the
\* manifest gives, and the file published is the concatenation of all of
\* them: no step of a commit and no failed commit shows anything else.
C1_AtomicVisibility ==
    [][objects' # objects =>
        \E p \in Procs :
            LET l == loc[p]
            IN  /\ pc[p] = "cmu_publish" /\ pc'[p] = "ret"
                /\ l.op = "CompleteMultipartUpload"
                /\ Verified(l.pre.parts, l.bucket, l.object, l.manifest)
                /\ objects' = Put(objects, <<l.bucket, l.object>>,
                                  PartsOf(l.pre.parts, l.bucket, l.object, l.manifest))]_vars

\* a commit of a non-empty manifest created the object file
C1_Witness ==
    \E p \in Procs :
        /\ Succeeded(p, "CompleteMultipartUpload")
        /\ loc[p].manifest # <<>>
        /\ <<loc[p].bucket, loc[p].object>> \notin DOMAIN loc[p].pre.objects
        /\ <<loc[p].bucket, loc[p].object>> \in DOMAIN objects

\* C2: when CompleteMultipartUpload returns without error, the object file
\* is the concatenation, in manifest order, of the part files the manifest
\* names as they were when the call began, the Size returned is the sum of
\* their sizes and the Md5 returned is the hex digest of the concatenation.
C2_Concatenation ==
    \A p \in Procs :
        Succeeded(p, "CompleteMultipartUpload") =>
            LET l == loc[p]
                key == <<l.bucket, l.object>>
                bytes == PartsOf(l.pre.parts, l.bucket, l.object, l.manifest)
            IN  /\ key \in DOMAIN objects
                /\ objects[key] = bytes
                /\ l.out.Size = SizesOf(l.pre.parts, l.bucket, l.object, l.manifest)
                /\ l.out.Md5 = HexEncode(Md5Sum(bytes))

\* a commit of two parts of different contents returned
C2_Witness ==
    \E p \in Procs :
        /\ Succeeded(p, "CompleteMultipartUpload")
        /\ Len(loc[p].manifest) = 2
        /\ objects[<<loc[p].bucket, loc[p].object>>] = <<1, 0>>
        /\ loc[p].out.Size = 2

\* C3: when CompleteMultipartUpload returns without error, having
\* published the object, then whatever the manifest names, the object has
\* no entry in the session map and no session journal, and of the parts
\* 1..N uploaded in the session no part file is left.
C3_NothingLeftAfterComplete ==
    \A p \in Procs :
        Succeeded(p, "CompleteMultipartUpload") /\ loc[p].handle = "published" =>
            LET l == loc[p]
            IN  /\ l.object \notin DOMAIN sessions
                /\ <<l.bucket, l.object>> \notin DOMAIN journals
                /\ \A n \in 1 .. Len(hist[l.uploadID].sizes) :
                       <<l.bucket, l.object, n>> \notin DOMAIN parts

\* C4: when the uploads of a session so far were the parts 1..N in this
\* order, a ListObjectParts of the session with marker 0 and maxParts >= N
\* returns N parts, numbered 1..N, each of the size uploaded.
C4_ListReturnsUploadedParts ==
    \A p \in Procs :
        LET l == loc[p]
        IN  /\ Succeeded(p, "ListObjectParts")
            /\ l.marker = 0
            /\ l.uploadID \in DOMAIN hist
            /\ hist[l.uploadID].ascending
            /\ l.maxParts >= Len(hist[l.uploadID].sizes)
            => LET sizes == hist[l.uploadID].sizes
               IN  /\ Len(l.out.Part) = Len(sizes)
                   /\ \A i \in 1 .. Len(sizes) :
                          /\ l.out.Part[i].PartNumber = i
                          /\ l.out.Part[i].Size = sizes[i]

\* C5: when AbortMultipartUpload returns without error, the object has no
\* entry in the session map and no journal, and of the parts 1..N uploaded
\* in the session no part file is left.
C5_NothingLeftAfterAbort ==
    \A p \in Procs :
        Succeeded(p, "AbortMultipartUpload") =>
            LET l == loc[p]
            IN  /\ l.object \notin DOMAIN sessions
                /\ <<l.bucket, l.object>> \notin DOMAIN journals
                /\ \A n \in 1 .. Len(hist[l.uploadID].sizes) :
                       <<l.bucket, l.object, n>> \notin DOMAIN parts

\* C6: an AbortMultipartUpload of a session that an earlier
\* AbortMultipartUpload of this process removed, with no NewMultipartUpload
\* of the object since, returns InvalidUploadID and changes no file and no
\* session map.
C6_SecondAbort ==
    [][\A p \in Procs :
          /\ pc[p] = "idle" /\ pc'[p] = "ret"
          /\ loc'[p].op = "AbortMultipartUpload"
          /\ loc'[p].uploadID \in DOMAIN hist
          /\ hist[loc'[p].uploadID].aborted
          => /\ loc'[p].err = "InvalidUploadID"
             /\ store' = store]_vars

\* a second abort of an aborted session returned
C6_Witness ==
    \E p \in Procs :
        /\ Returned(p, "AbortMultipartUpload")
        /\ loc[p].err = "InvalidUploadID"
        /\ loc[p].uploadID \in DOMAIN hist
        /\ hist[loc[p].uploadID].aborted

\* C7: when CreateObjectPart returns BadDigest, or the error of a stream
\* that ended before size bytes, the part files, the session map and the
\* journals are what they were when the call began.
C7_FailedPartLeavesNoTrace ==
    \A p \in Procs :
        Returned(p, "CreateObjectPart") /\ loc[p].err \in {"BadDigest", "EOF"} =>
            /\ parts = loc[p].pre.parts
            /\ sessions = loc[p].pre.sessions
            /\ journals = loc[p].pre.journals

\* an upload failed its digest check in a session that has a part recorded
C7_Witness ==
    \E p \in Procs :
        /\ Returned(p, "CreateObjectPart")
        /\ loc[p].err = "BadDigest"
        /\ \E o \in DOMAIN sessions : sessions[o].Parts # <<>>

\* the four operations that take an uploadID
UploadIDOps ==
    {"CreateObjectPart", "CompleteMultipartUpload", "AbortMultipartUpload",
     "ListObjectParts"}

\* C8: when one of CreateObjectPart, CompleteMultipartUpload,
\* AbortMultipartUpload and ListObjectParts was called, past its checks of
\* the names, with an uploadID that was not the one mapped for the object
\* when the call began, it returns InvalidUploadID, and the session map, its
\* file, the journals, the part files and the object files are unchanged.
C8_InvalidUploadID ==
    \A p \in Procs :
        LET l == loc[p]
        IN  /\ pc[p] = "ret"
            /\ l.op \in UploadIDOps
            /\ l.uploadID # 0
            /\ ~(/\ l.object \in DOMAIN l.pre.sessions
                 /\ l.pre.sessions[l.object].UploadID = l.uploadID)
            => /\ l.err = "InvalidUploadID"
               /\ store = <<l.pre.sessions, l.pre.saved, l.pre.journals,
                            l.pre.parts, l.pre.objects>>

\* a part was sent with another uploadID than the one mapped for the object
C8_Witness ==
    \E p \in Procs :
        /\ Returned(p, "CreateObjectPart")
        /\ loc[p].err = "InvalidUploadID"
        /\ loc[p].object \in DOMAIN sessions
        /\ sessions[loc[p].object].UploadID # loc[p].uploadID

\* the operations that change the session map
MutatingOps ==
    {"NewMultipartUpload", "CreateObjectPart", "CompleteMultipartUpload",
     "AbortMultipartUpload"}

\* C9: when a mutating operation returns without error, the session map
\* file holds the session map of the process.
C9_SessionMapSaved ==
    \A p \in Procs :
        pc[p] = "ret" /\ loc[p].op \in MutatingOps /\ loc[p].err = "" =>
            saved = sessions

\* C10: at most one goroutine is between the Lock and the Unlock of an
\* operation, and it is the holder of the mutex; so the steps of one
\* operation are never interleaved with those of another.
C10_MutualExclusion ==
    /\ \A p, q \in Procs : pc[p] # "idle" /\ pc[q] # "idle" => p = q
    /\ \A p \in Procs : pc[p] # "idle" <=> lock = p

\* a goroutine is between the part file and the journal of its upload
\* while the other, which has started the session, waits
C10_Witness ==
    \E p, q \in Procs :
        /\ p # q
        /\ pc[p] = "cop_journal" /\ lock = p
        /\ pc[q] = "idle"
        /\ hist # <<>>

\* the free blocks are at most m percent of the total less 5%
FreePercentAtMost(free, m) == free * 100 * 20 <= m * TotalBlocks * 19

\* C11: when NewMultipartUpload or CreateObjectPart ran with the free space
\* of the root at or below the minimum, it returned RootPathFull, whatever
\* its other arguments, and session map, session map file, journals, part
\* files and object files are what they were; and CompleteMultipartUpload
\* and AbortMultipartUpload, which read no free space, never return
\* RootPathFull.
C11_DiskGuard ==
    \A p \in Procs :
        LET l == loc[p]
        IN  pc[p] # "idle" =>
            /\ l.op \in {"NewMultipartUpload", "CreateObjectPart"}
               /\ FreePercentAtMost(l.free, minFreeDisk)
               => /\ pc[p] = "ret"
                  /\ l.err = "RootPathFull"
                  /\ store = <<l.pre.sessions, l.pre.saved, l.pre.journals,
                               l.pre.parts, l.pre.objects>>
            /\ l.op \in {"CompleteMultipartUpload", "AbortMultipartUpload"}
               => l.err # "RootPathFull" /\ l.free = 0

\* an upload was refused for the disk guard in a session that has a part
C11_Witness ==
    \E p \in Procs :
        /\ Returned(p, "CreateObjectPart")
        /\ loc[p].err = "RootPathFull"
        /\ FreePercentAtMost(loc[p].free, minFreeDisk)
        /\ \E o \in DOMAIN sessions : sessions[o].Parts # <<>>

\* each number of ns is greater than the one before it
StrictlyAscending(ns) == \A i \in 2 .. Len(ns) : ns[i] > ns[i - 1]

VerifyErrors ==
    {"EOF", "BadDigest", "InvalidDigest", "SignatureDoesNotMatch",
     "SignatureError", "MalformedXML", "InvalidPartOrder"}

\* C13: when CreateObjectPart returns a short read, a digest or a signature
\* error, its temp file, if it had created one, was purged and closed once
\* and the part files are what they were; when CompleteMultipartUpload
\* returns a signature, XML, part order or digest error or the error of a
\* missing part file, its temp file was purged and the object files are
\* what they were.
C13_FailBeforePublish ==
    \A p \in Procs :
        LET l == loc[p]
        IN  pc[p] = "ret" =>
            /\ l.op = "CreateObjectPart" /\ l.err \in VerifyErrors
               => /\ parts = l.pre.parts
                  /\ IF l.err = "InvalidDigest"
                     THEN l.handle = "none"
                     ELSE l.handle = "purged" /\ l.closes = 1
            /\ l.op = "CompleteMultipartUpload" /\ l.err \in VerifyErrors \cup {"ENOENT"}
               => /\ objects = l.pre.objects
                  /\ l.handle = "purged"

\* a commit failed the digest check of a part that is on disk
C13_Witness ==
    \E p \in Procs :
        /\ Returned(p, "CompleteMultipartUpload")
        /\ loc[p].err = "BadDigest"
        /\ loc[p].handle = "purged"
        /\ parts # <<>>

\* the buckets that hold a journal of object o
JournalBuckets(o) == {b \in Buckets : <<b, o>> \in DOMAIN journals}

\* C14: whenever no operation is running, also right after a restart, every
\* object of the session map has exactly one journal on disk, and every part
\* record of its session has a part file beside that journal, of the size
\* recorded.
C14_SessionsHaveFiles ==
    lock = NoProc =>
        \A o \in DOMAIN sessions :
            /\ Cardinality(JournalBuckets(o)) = 1
            /\ \A i \in 1 .. Len(sessions[o].Parts) :
                   \A b \in JournalBuckets(o) :
                       LET part == sessions[o].Parts[i]
                           partPath == <<b, o, part.PartNumber>>
                       IN  /\ partPath \in DOMAIN parts
                           /\ Len(parts[partPath]) = part.Size

\* ---------------------------------------------------- listing properties
\* goroutine p has the result of a listing in hand, with its request
ListReturned(p) ==
    /\ Returned(p, "ListMultipartUploads")
    /\ loc[p].err = ""
    /\ loc[p].resources # <<>>

\* string s begins with string t
BeginsWith(s, t) == \E n \in 0 .. Len(s) : SubSeq(s, 1, n) = t

\* the session of object is one the request asks for
Matches(object, resources) ==
    /\ BeginsWith(object, resources.Prefix)
    /\ IF resources.KeyMarker = <<>> THEN TRUE
       ELSE IF resources.UploadIDMarker = 0
       THEN StringGreater(object, resources.KeyMarker)
       ELSE /\ sessions[object].UploadID > resources.UploadIDMarker
            /\ ~StringGreater(resources.KeyMarker, object)

\* the uploads of the objects S by ascending object key
Ascending(S) ==
    LET f == CHOOSE g \in RangeOrders(S) :
                 \A i, j \in DOMAIN g : i < j => StringGreater(g[j], g[i])
    IN  [i \in DOMAIN f |-> [Object |-> f[i], UploadID |-> sessions[f[i]].UploadID]]

\* the uploads a request asks for, in order
Matching(resources) ==
    Ascending({o \in DOMAIN sessions : Matches(o, resources)})

\* C15: a listing with maxUploads = k of a session map in which more than k
\* sessions match the prefix and the markers returns exactly the first k of
\* them by object key, says it is truncated, and names as next key marker the
\* object of the first session left out; the result is a function of the map
\* and the request, whatever the order the map is ranged in.
C15_Truncation ==
    \A p \in Procs :
        ListReturned(p) =>
            LET r == loc[p].resources
                k == r.MaxUploads
                m == Matching(r)
            IN  Len(m) > k =>
                    /\ loc[p].out.Upload = SubSeq(m, 1, k)
                    /\ loc[p].out.IsTruncated
                    /\ loc[p].out.NextKeyMarker = m[k + 1].Object

\* three sessions were listed with maxUploads = 1 and no prefix or marker
C15_Witness ==
    \E p \in Procs :
        /\ ListReturned(p)
        /\ Cardinality(DOMAIN sessions) = 3
        /\ loc[p].resources = [Prefix |-> <<>>, KeyMarker |-> <<>>,
                               UploadIDMarker |-> 0, MaxUploads |-> 1]
        /\ loc[p].out.IsTruncated

\* C16: a listing that is not truncated returns, by ascending object key,
\* exactly the sessions whose object key begins with the prefix and that pass
\* the markers: every one with an empty key marker; those with a key above
\* the key marker when the upload-id marker is empty; those with an upload id
\* above the upload-id marker and a key not below the key marker when both are
\* given.
C16_Listing ==
    \A p \in Procs :
        ListReturned(p) /\ ~loc[p].out.IsTruncated =>
            loc[p].out.Upload = Matching(loc[p].resources)

\* an untruncated listing with both markers of three sessions returned some
\* and left some out
C16_Witness ==
    \E p \in Procs :
        /\ ListReturned(p)
        /\ ~loc[p].out.IsTruncated
        /\ Cardinality(DOMAIN sessions) = 3
        /\ loc[p].resources.KeyMarker # <<>>
        /\ loc[p].resources.UploadIDMarker # 0
        /\ Len(loc[p].out.Upload) = 2

\* the number of times the session of object o is in the uploads us
Times(us, o) ==
    Cardinality({i \in 1 .. Len(us) :
                    us[i] = [Object |-> o, UploadID |-> sessions[o].UploadID]})

\* a listing without markers returned
Unmarked(p) ==
    /\ ListReturned(p)
    /\ loc[p].resources.KeyMarker = <<>>
    /\ loc[p].resources.UploadIDMarker = 0

\* C17, as stated: a session started and neither committed nor aborted is in
\* the result of every listing without markers whose prefix is a prefix of
\* its object name, exactly once, whatever other sessions are active.
C17_ListedOnce ==
    \A p \in Procs :
        Unmarked(p) =>
            \A o \in DOMAIN sessions :
                BeginsWith(o, loc[p].resources.Prefix) =>
                    Times(loc[p].out.Upload, o) = 1

\* C17, amended: a session started and neither committed nor aborted is in the
\* result of every listing without markers whose prefix is a prefix of its
\* object name, exactly once, whatever other sessions are active, provided
\* the listing is not truncated.
C17_ListedOnceUntruncated ==
    \A p \in Procs :
        Unmarked(p) /\ ~loc[p].out.IsTruncated =>
            \A o \in DOMAIN sessions :
                BeginsWith(o, loc[p].resources.Prefix) =>
                    Times(loc[p].out.Upload, o) = 1

\* the session on aa, the last of three started, is listed under the prefix a
\* beside the session on a
C17_Witness ==
    \E p \in Procs :
        /\ Unmarked(p)
        /\ ~loc[p].out.IsTruncated
        /\ Cardinality(DOMAIN sessions) = 3
        /\ sessions[<<1, 1>>].UploadID = MaxSessions
        /\ loc[p].resources.Prefix = <<1>>
        /\ Times(loc[p].out.Upload, <<1, 1>>) = 1
        /\ Len(loc[p].out.Upload) = 2

\* ------------------------------------------------------- commit ordering
\* goroutine p is about to publish: the object's session is out of the map
\* and out of the saved map, the part files its manifest names and the
\* journal are off the disk, and the objects are those before the call
CleanedUp(p, ss, sv, js, ps, os) ==
    LET l == loc[p]
    IN  /\ l.object \notin DOMAIN ss
        /\ l.object \notin DOMAIN sv
        /\ <<l.bucket, l.object>> \notin DOMAIN js
        /\ \A i \in 1 .. Len(l.manifest) :
               <<l.bucket, l.object, l.manifest[i].PartNumber>> \notin DOMAIN ps
        /\ os = l.pre.objects

\* the process stops and starts again
Crash == \A p \in Procs : pc'[p] = "idle"

\* C18: in every commit the removal of the session map entry, the deletion of
\* every part file the manifest names, the deletion of the journal and the
\* saving of the session map have all happened when the rename that publishes
\* the object is the next step; a crash at that point leaves the object
\* unpublished, its parts gone and the session forgotten.
C18_CommitOrdering ==
    /\ [](\A p \in Procs :
              pc[p] = "cmu_publish" =>
                  CleanedUp(p, sessions, saved, journals, parts, objects))
    /\ [][\A p \in Procs :
              pc[p] = "cmu_publish" /\ Crash =>
                  CleanedUp(p, sessions', saved', journals', parts', objects')]_vars

\* a commit of a manifest of two parts is about to publish
C18_Witness ==
    \E p \in Procs :
        /\ pc[p] = "cmu_publish"
        /\ Len(loc[p].manifest) = 2
        /\ loc[p].tmp # <<>>

\* ------------------------------------------------------ session records
\* C19: when the successful uploads of a session so far are the parts 1..N in
\* this order, the last of them just returned, the session of the object in
\* the session map has totalParts = N and N part records, one for each of
\* the parts 1..N.
C19_PartsAccumulate ==
    \A p \in Procs :
        LET l == loc[p]
        IN  /\ Succeeded(p, "CreateObjectPart")
            /\ hist[l.uploadID].ascending
            /\ Len(hist[l.uploadID].sizes) = l.partID
            => /\ l.object \in DOMAIN sessions
               /\ sessions[l.object].TotalParts = l.partID
               /\ Len(sessions[l.object].Parts) = l.partID
               /\ \A i \in 1 .. l.partID :
                      sessions[l.object].Parts[i].PartNumber = i

\* part 2 was uploaded after part 1 in one session
C19_Witness ==
    \E p \in Procs :
        /\ Succeeded(p, "CreateObjectPart")
        /\ hist[loc[p].uploadID].ascending
        /\ Len(hist[loc[p].uploadID].sizes) = 2
        /\ loc[p].partID = 2

\* the operations after which the journal and the session map are compared
JournalOps == {"NewMultipartUpload", "CreateObjectPart"}

\* C20: after every successful NewMultipartUpload or CreateObjectPart the
\* descriptor decoded from the journal of the object, as ListObjectParts and
\* the next CreateObjectPart decode it, is the session of the object in the
\* session map: same uploadID, same totalParts, same part records.
C20_JournalAgrees ==
    \A p \in Procs :
        LET l == loc[p]
            key == <<l.bucket, l.object>>
        IN  pc[p] = "ret" /\ l.op \in JournalOps /\ l.err = ""
            => /\ key \in DOMAIN journals
               /\ l.object \in DOMAIN sessions
               /\ Decode(journals[key]) = sessions[l.object]

\* a part was uploaded and recorded
C20_Witness ==
    \E p \in Procs :
        /\ Succeeded(p, "CreateObjectPart")
        /\ <<loc[p].bucket, loc[p].object>> \in DOMAIN journals
        /\ sessions[loc[p].object].TotalParts = 1

\* --------------------------------------------------------- file handles
\* the operations that create an atomic file
HandleOps == {"CreateObjectPart", "CompleteMultipartUpload"}

\* C21: a CreateObjectPart or CompleteMultipartUpload that created an atomic
\* file handle has, when it returns, closed it exactly once, either publishing
\* or purging the temp file; until then a handle not yet closed is open and
\* none is closed twice.
C21_OneTerminalOperation ==
    \A p \in Procs :
        LET l == loc[p]
        IN  pc[p] # "idle" /\ l.op \in HandleOps =>
                /\ l.closes <= 1
                /\ l.closes = 1 <=> l.handle \in {"purged", "published"}
                /\ l.closes = 0 <=> l.handle \in {"none", "open"}
                /\ pc[p] = "ret" => l.handle # "open"
                /\ pc[p] = "ret" /\ l.handle = "none" =>
                       /\ l.tmp = <<>>
                       /\ parts = l.pre.parts
                       /\ objects = l.pre.objects

\* a commit that had assembled its temp file failed in the cleanup and purged
C21_Witness ==
    \E p \in Procs :
        /\ Returned(p, "CompleteMultipartUpload")
        /\ loc[p].err = "ENOENT"
        /\ loc[p].tmp # <<>>
        /\ loc[p].handle = "purged"
        /\ loc[p].closes = 1

\* ----------------------------------------------------- replaced sessions
\* the uploadIDs given out for object o before the latest one
Replaced(o) ==
    {id \in DOMAIN hist :
        /\ hist[id].object = o
        /\ \E later \in DOMAIN hist : later > id /\ hist[later].object = o}

\* C22: a NewMultipartUpload for an object that has an active session
\* succeeds and puts a fresh descriptor in the object's entry of the session
\* map (an uploadID other than the one before, totalParts 0, no parts),
\* deleting no part file; and from then on every CreateObjectPart,
\* CompleteMultipartUpload, AbortMultipartUpload and ListObjectParts called
\* with an uploadID given out for the object before the latest one returns
\* InvalidUploadID and changes nothing.
C22_SessionReplaced ==
    \A p \in Procs :
        LET l == loc[p]
        IN  /\ /\ Succeeded(p, "NewMultipartUpload")
               /\ l.object \in DOMAIN l.pre.sessions
               => /\ sessions[l.object] = Session(l.out, 0, <<>>)
                  /\ l.out # l.pre.sessions[l.object].UploadID
                  /\ l.out \notin Replaced(l.object)
                  /\ parts = l.pre.parts
            /\ /\ pc[p] = "ret"
               /\ l.op \in UploadIDOps
               /\ l.uploadID \in Replaced(l.object)
               => /\ l.err = "InvalidUploadID"
                  /\ store = <<l.pre.sessions, l.pre.saved, l.pre.journals,
                               l.pre.parts, l.pre.objects>>

\* after a second NewMultipartUpload a commit with the first uploadID was
\* refused, a part file of the first session being on disk
C22_Witness ==
    \E p \in Procs :
        /\ Returned(p, "CompleteMultipartUpload")
        /\ loc[p].uploadID = 1
        /\ loc[p].uploadID \in Replaced(loc[p].object)
        /\ loc[p].err = "InvalidUploadID"
        /\ loc[p].object \in DOMAIN sessions
        /\ sessions[loc[p].object] = Session(2, 0, <<>>)
        /\ parts # <<>>

\* ------------------------------------------------------------ pagination
\* the result the pagination rule gives on the descriptor d: the entries from
\* index max(marker, 1) on, cut when more than maxParts are collected and an
\* entry is left
Page(d, marker, maxParts) ==
    LET start == IF marker > 1 THEN marker ELSE 1
        cut == start + maxParts + 1
    IN  IF cut <= d.TotalParts
        THEN [Part |-> SubSeq(d.Parts, start, cut - 1), IsTruncated |-> TRUE,
              NextPartNumberMarker |-> cut, panic |-> FALSE]
        ELSE [Part |-> SubSeq(d.Parts, start, d.TotalParts), IsTruncated |-> FALSE,
              NextPartNumberMarker |-> 0, panic |-> FALSE]

\* C23: a ListObjectParts past its checks, whatever its partNumberMarker
\* (zero, positive or negative) and its maxParts, reads the entries of the
\* decoded journal from index max(partNumberMarker, 1) on and none outside
\* 1..totalParts, and when it has collected more than maxParts it returns
\* them with isTruncated = true and nextPartNumberMarker the index of the
\* first entry not returned.
C23_Pagination ==
    \A p \in Procs :
        LET l == loc[p]
            key == <<l.bucket, l.object>>
        IN  /\ Returned(p, "ListObjectParts")
            /\ l.err \in {"", "panic"}
            /\ l.maxParts >= 0
            => /\ ~l.out.panic
               /\ l.out = Page(Decode(l.pre.journals[key]), l.marker, l.maxParts)

\* the parts of a session were listed with a negative partNumberMarker
C23_Witness ==
    \E p \in Procs :
        /\ Returned(p, "ListObjectParts")
        /\ loc[p].err \in {"", "panic"}
        /\ loc[p].marker < 0

\* ------------------------------------------------------------ retries
\* the errors of the steps of a commit after its checks of the names and of
\* the uploadID
CommitErrors ==
    {"SignatureDoesNotMatch", "MalformedXML", "InvalidPartOrder",
     "InvalidDigest", "BadDigest", "ENOENT"}

\* C24: when CompleteMultipartUpload returns an error of its signature check,
\* its parsing, its check of the order, its concatenation or its cleanup of
\* the part files and the journal, the session map, the journals and the
\* part files are what they were when the call began, so that the uploadID
\* is still the one mapped for the object.
C24_RetryAfterFailedCommit ==
    \A p \in Procs :
        Returned(p, "CompleteMultipartUpload") /\ loc[p].err \in CommitErrors =>
            /\ sessions = loc[p].pre.sessions
            /\ journals = loc[p].pre.journals
            /\ parts = loc[p].pre.parts

\* a commit failed in its cleanup
C24_Witness ==
    \E p \in Procs :
        /\ Returned(p, "CompleteMultipartUpload")
        /\ loc[p].err = "ENOENT"
        /\ loc[p].closes = 1
        /\ loc[p].object \in DOMAIN loc[p].pre.sessions

\* ------------------------------------------------------ bucket isolation
\* the operations that change a session
SessionOps ==
    {"NewMultipartUpload", "CreateObjectPart", "CompleteMultipartUpload",
     "AbortMultipartUpload"}

\* the files of bucket b among the files fsys
InBucket(fsys, b) == [k \in {k \in DOMAIN fsys : k[1] = b} |-> fsys[k]]

\* goroutine p has returned from an operation on its object in another
\* bucket than the one the object's session was started in
OtherBucket(p) ==
    LET l == loc[p]
    IN  /\ pc[p] = "ret"
        /\ l.op \in SessionOps
        /\ l.bucket \in TwoBuckets
        /\ l.object \in DOMAIN l.pre.sessions
        /\ hist[l.pre.sessions[l.object].UploadID].bucket # l.bucket

\* C25: a session started on an object name in one bucket is not touched by
\* a NewMultipartUpload, CreateObjectPart, CompleteMultipartUpload or
\* AbortMultipartUpload on the same object name in another bucket: its entry
\* of the session map with its part records, its journal and its part files
\* are unchanged, and its uploadID is not accepted in the other bucket.
C25_BucketIsolation ==
    \A p \in Procs :
        OtherBucket(p) =>
            LET l == loc[p]
                id == l.pre.sessions[l.object].UploadID
                b == hist[id].bucket
            IN  /\ l.object \in DOMAIN sessions
                /\ sessions[l.object] = l.pre.sessions[l.object]
                /\ InBucket(journals, b) = InBucket(l.pre.journals, b)
                /\ InBucket(parts, b) = InBucket(l.pre.parts, b)
                /\ l.uploadID = id /\ l.op # "NewMultipartUpload"
                   => l.err = "InvalidUploadID"

\* a session was started on the object name in the bucket other than the one
\* of the active session
C25_Witness ==
    \E p \in Procs :
        /\ OtherBucket(p)
        /\ Succeeded(p, "NewMultipartUpload")
        /\ loc[p].bucket = "b2"

\* C26: every upload a ListMultipartUploads of a bucket returns is a session
\* that NewMultipartUpload started on that bucket.
C26_ListedInBucket ==
    \A p \in Procs :
        ListReturned(p) /\ loc[p].bucket \in TwoBuckets =>
            \A i \in 1 .. Len(loc[p].out.Upload) :
                hist[loc[p].out.Upload[i].UploadID].bucket = loc[p].bucket

\* the uploads of b2 were listed while a session started on b1 was active
C26_Witness ==
    \E p \in Procs :
        /\ ListReturned(p)
        /\ loc[p].bucket = "b2"
        /\ \E o \in DOMAIN sessions : hist[sessions[o].UploadID].bucket = "b1"

\* ----------------------------------------------------------------- progress
\* C27: a goroutine that holds the mutex reaches its return and unlocks it,
\* whichever way the operation ends, and a goroutine waiting to call an
\* operation comes to hold the mutex: the mutex is never held for ever.
C27_LockReleased ==
    \A p \in Procs :
        /\ (lock = p) ~> (lock = NoProc /\ pc[p] = "idle")
        /\ (pc[p] = "idle") ~> (lock = p)

\* one goroutine is removing the parts of its commit, the other waits
C27_Witness ==
    \E p, q \in Procs :
        /\ lock = p
        /\ pc[p] = "cmu_rmpart"
        /\ pc[q] = "idle"

====
